---- MODULE Spec2Model ----
(***************************************************************************)
(* voicelog: the capture / playback pipeline of src/main.go.               *)
(*                                                                         *)
(* The bubbletea runtime holds one Model value (variable m) and hands a    *)
(* copy of it to Update for every message; the handlers run one at a time  *)
(* on the control thread.  The PortAudio callbacks run on the audio thread *)
(* and are bound to the handler-local copy of the Model that opened the    *)
(* stream, so what a callback sees of the Model is the value that copy had *)
(* when the handler returned: its audioDevice pointer and its volume.      *)
(* AudioDevice objects live on the heap (variable devs) and are shared     *)
(* through that pointer.                                                   *)
(*                                                                         *)
(* Numbers: sizes are bytes, cursors are sample indexes, the volume is     *)
(* counted in steps of 1/VolDen, a file name is the clock second it was    *)
(* generated in.  Stream Stop and Close calls are taken to succeed on an   *)
(* open stream and to do nothing on a closed one.                          *)
(***************************************************************************)
EXTENDS Integers, Sequences, FiniteSets, TLC

\* ---- bounds of the model
MaxSess == 2
MaxMemos == 2
MaxInit == 2
MaxClock == 2
MaxData == 1
MaxSlots == 2
MaxFillSlots == 5
MaxVolSteps == 2
ToneSamples == 2
MaxCodecLen == 2

\* ---- program constants
HeaderSize == 44
Int16Max == 32767
Int16Min == -32768
VolDen == 10

\* defaultConfig: SampleRate, ChannelCount, BitDepth (bytes per sample)
DefaultSampleRate == 44100
DefaultChannelCount == 2
DefaultBitDepth == 2

NoDev == 0
NoFile == -1
NoByte == -1

\* the zero time.Time
NoTime == 0

\* the test file's name "test_tone.wav" and its memo's id "test_file"
TestToneFile == -2
TestFileID == -2

VARIABLES
    m,        \* the Model held by the runtime (control thread)
    devs,     \* heap of AudioDevice objects: slot -> object, or Free
    files,    \* the memo directory: file name -> content
    meta,     \* the metadata file: the memo collection last written to it
    pa,       \* PortAudio's count of Initialize calls not yet terminated
    now,      \* wall clock, in seconds
    pc,       \* where the control thread stands inside stopRecording
    sr,       \* stopRecording's locals (filename, fileSize)
    out,      \* the buffer the fill request that just returned produced
    req,      \* that fill request: device, slots asked, cursor before
    curRec,   \* the capture session the user's recording belongs to
    curPlay,  \* the playback session the user's playback belongs to
    playMemo, \* the file name of the memo curPlay plays
    paused,   \* the playback session was paused and not restarted or stopped
    tickStops, \* stopPlayback calls the tick made since playback last started
    codec     \* a header round trip: the format and payload, the file, the result

vars == <<m, devs, files, meta, pa, now, pc, sr, out, req, curRec, curPlay, playMemo, paused, tickStops, codec>>

\* ---- small helpers
Min(a, b) == IF a < b THEN a ELSE b

Max(a, b) == IF a > b THEN a ELSE b

\* Go's conversion of a float64 to int16 drops the fraction (toward zero).
TruncDiv(a, b) == IF a >= 0 THEN a \div b ELSE -((-a) \div b)

\* ---- files
Absent ==
    [exists |-> FALSE, riff |-> FALSE, wave |-> FALSE, hdrLen |-> 0, hdr4 |-> 0, channels |-> 0,
     rate |-> 0, bits |-> 0, hdr40 |-> 0, data |-> <<>>, tail |-> NoByte]

\* os.Create: the file exists and is empty (an existing file is truncated).
Created == [Absent EXCEPT !.exists = TRUE]

\* uint32(x) of a size: the sizes of the model are far below 2^31, where the
\* conversion changes nothing; a negative size wraps to a value above 2^31,
\* which the checker's integers cannot hold and WrapHigh stands for.
WrapHigh == 2147483647

Uint32(x) == IF x >= 0 THEN x ELSE WrapHigh

\* uint16(x) of a value that is not negative
Uint16(x) == x % 65536

\* writeWAVHeader with the two size fields the other way round
writeWAVHeaderSizesSwapped(f, sampleRate, channels, bitsPerSample, dataSize) ==
    [f EXCEPT !.riff = TRUE, !.wave = TRUE, !.hdrLen = HeaderSize,
              !.hdr4 = Uint32(dataSize),
              !.channels = Uint16(channels),
              !.rate = Uint32(sampleRate),
              !.bits = Uint16(bitsPerSample),
              !.hdr40 = Uint32(36 + dataSize)]

\* writeWAVHeader on a fresh file: 44 bytes, the tags set, the fields as given,
\* each cut to the width of its field.
writeWAVHeader(f, sampleRate, channels, bitsPerSample, dataSize) ==
    [f EXCEPT !.riff = TRUE, !.wave = TRUE, !.hdrLen = HeaderSize,
              !.hdr4 = Uint32(36 + dataSize),
              !.channels = Uint16(channels),
              !.rate = Uint32(sampleRate),
              !.bits = Uint16(bitsPerSample),
              !.hdr40 = Uint32(dataSize)]

\* the payload bytes a file holds: two per sample, and the odd byte at its end
PayloadBytes(f) == 2 * Len(f.data) + (IF f.tail = NoByte THEN 0 ELSE 1)

\* fileInfo.Size(): header bytes plus the payload bytes.
FileSize(f) == IF PayloadBytes(f) > 0 THEN HeaderSize + PayloadBytes(f) ELSE f.hdrLen

\* A write of block at payload offset off (in samples) through a handle: bytes
\* past the end extend the file, a gap is read back as zeros.
WriteAt(data, off, block) ==
    [i \in 1..Max(Len(data), off + Len(block)) |->
        IF i > off /\ i <= off + Len(block) THEN block[i - off]
        ELSE IF i <= Len(data) THEN data[i]
        ELSE 0]

\* ---- samples and bytes
\* binary.Write of one int16, little-endian: the low byte, then the high byte
\* of its two's complement
PutInt16(s) ==
    LET u == IF s < 0 THEN s + 65536 ELSE s
    IN  <<u % 256, u \div 256>>

\* binary.Write(file, binary.LittleEndian, in), line 1445: two bytes a sample
binaryWrite(in) ==
    [i \in 1..(2 * Len(in)) |-> PutInt16(in[(i + 1) \div 2])[2 - (i % 2)]]

\* int16(u) of a uint16 read as it stands, without the sign
Int16Unsigned(u) == u

\* int16(u) of a uint16: the values from 32768 up are the negative ones
Int16(u) == IF u >= 32768 THEN u - 65536 ELSE u

\* lines 723-727 of readWAVData: len(audioData)/2 samples, each
\* int16(binary.LittleEndian.Uint16(audioData[i*2 : i*2+2]))
bytesToSamples(audioData) ==
    [i \in 1..(Len(audioData) \div 2) |->
        Int16(audioData[2 * i - 1] + 256 * audioData[2 * i])]

ReadError == [err |-> TRUE, samples |-> <<>>, sampleRate |-> 0, channels |-> 0]

\* a header field ending at byte end, as read into the zeroed 44-byte buffer:
\* what lies beyond the file's end stays zero
HeaderField(f, end, v) == IF f.hdrLen >= end THEN v ELSE 0

\* readWAVData that rejects a file only when both tags are wrong
readWAVDataBothTags(f) ==
    LET dataSize == HeaderField(f, 44, f.hdr40)
    IN  IF ~f.exists \/ FileSize(f) = 0 THEN ReadError
        ELSE IF ~(f.riff /\ f.hdrLen >= 4) /\ ~(f.wave /\ f.hdrLen >= 12) THEN ReadError
        ELSE IF dataSize > 0 /\ PayloadBytes(f) = 0 THEN ReadError
        ELSE [err |-> FALSE,
              samples |-> [i \in 1..(dataSize \div 2) |->
                              IF i <= Len(f.data) THEN f.data[i]
                              ELSE IF i = Len(f.data) + 1 /\ f.tail # NoByte THEN f.tail
                              ELSE 0],
              sampleRate |-> HeaderField(f, 28, f.rate),
              channels |-> HeaderField(f, 24, f.channels)]

\* readWAVData, lines 693-730: the decoded samples with the header's rate and
\* channel count, or an error. Open fails on a missing file and the first Read
\* on an empty one; a shorter header is read as far as it goes. The tags are
\* checked, then the buffer of the declared size is read: a Read that gets no
\* byte for a buffer that is not empty fails, any other succeeds, and what the
\* file does not hold stays zero (an odd byte at the end of the file is the
\* low byte of a sample whose high byte is zero).
readWAVData(f) ==
    LET dataSize == HeaderField(f, 44, f.hdr40)
    IN  IF ~f.exists \/ FileSize(f) = 0 THEN ReadError
        ELSE IF ~(f.riff /\ f.hdrLen >= 4) \/ ~(f.wave /\ f.hdrLen >= 12) THEN ReadError
        ELSE IF dataSize > 0 /\ PayloadBytes(f) = 0 THEN ReadError
        ELSE [err |-> FALSE,
              samples |-> [i \in 1..(dataSize \div 2) |->
                              IF i <= Len(f.data) THEN f.data[i]
                              ELSE IF i = Len(f.data) + 1 /\ f.tail # NoByte THEN f.tail
                              ELSE 0],
              sampleRate |-> HeaderField(f, 28, f.rate),
              channels |-> HeaderField(f, 24, f.channels)]

\* ---- AudioDevice objects
NewRecordingDevice(file) ==
    [stream |-> "nil", recordingFile |-> file, fopen |-> TRUE, off |-> 0,
     hasData |-> FALSE, playbackData |-> <<>>, playbackPos |-> 0, cbVolume |-> 0]

NewPlaybackDevice(data) ==
    [stream |-> "nil", recordingFile |-> NoFile, fopen |-> FALSE, off |-> 0,
     hasData |-> TRUE, playbackData |-> data, playbackPos |-> 0, cbVolume |-> 0]

\* a heap slot that holds no AudioDevice
Free ==
    [stream |-> "nil", recordingFile |-> NoFile, fopen |-> FALSE, off |-> 0,
     hasData |-> FALSE, playbackData |-> <<>>, playbackPos |-> 0, cbVolume |-> 0]

Slots == DOMAIN devs

\* &AudioDevice{...}: the slot a new object gets
NewSlot(ds) == CHOOSE i \in Slots : ds[i] = Free /\ \A j \in Slots : ds[j] = Free => i <= j

HasFreeSlot(ds) == \E i \in Slots : ds[i] = Free

StreamOpen(d) == d.stream \in {"stopped", "running"}

IsInput(d) == d.recordingFile # NoFile

IsOutput(d) == d.hasData

\* stream.Stop() followed by stream.Close()
StopAndClose(d) == [d EXCEPT !.stream = IF StreamOpen(d) THEN "closed" ELSE @]

\* stream.Stop()
StopOnly(d) == [d EXCEPT !.stream = IF @ = "running" THEN "stopped" ELSE @]

\* ---- the world the handlers act on: the state, and for the one call of a
\* handler what time.Now() returns (now), whether its writes of the metadata file succeed (saveOk), how
\* many file handles it opened and left open with nothing referring to them
\* (orphans), and how many times it called portaudio.Terminate with PortAudio
\* not initialized (unmatched)
World ==
    [m |-> m, devs |-> devs, files |-> files, meta |-> meta, pa |-> pa,
     now |-> now, saveOk |-> TRUE, orphans |-> 0, unmatched |-> 0]

\* the same call with the writes of the metadata file failing
WorldSaveFails == [World EXCEPT !.saveOk = FALSE]

\* saveMemos that puts the collection back as the file has it when the write fails
saveMemosRollsBack(w) ==
    IF w.saveOk THEN [w EXCEPT !.meta = w.m.memos] ELSE [w EXCEPT !.m.memos = w.meta]

\* saveMemos, lines 808-815: the whole collection replaces the file's content
saveMemos(w) == IF w.saveOk THEN [w EXCEPT !.meta = w.m.memos] ELSE w

\* portaudio.Initialize(): counted.
Initialize(w) == [w EXCEPT !.pa = @ + 1]

\* portaudio.Terminate(): fails when not initialized; the call that matches the
\* first Initialize closes every stream that is still open.
Terminate(w) ==
    IF w.pa = 0 THEN [w EXCEPT !.unmatched = @ + 1]
    ELSE IF w.pa = 1
    THEN [w EXCEPT !.pa = 0,
                   !.devs = [i \in DOMAIN w.devs |-> StopAndClose(w.devs[i])]]
    ELSE [w EXCEPT !.pa = @ - 1]

\* ---- stopRecording, in the three stretches the audio thread can fall between
NoDuration == [num |-> 0, den |-> 1]

NoStat == [filename |-> NoFile, fileSize |-> 0, duration |-> NoDuration]

\* lines 1549-1559: the duration in seconds, as the fraction num / den; the
\* number of samples is a whole number (integer division)
Duration(fileSize, channelCount, bitDepth, sampleRate, recordingTime) ==
    LET dataSize == fileSize - HeaderSize
        bytesPerSample == channelCount * bitDepth
    IN  IF bytesPerSample > 0 /\ sampleRate > 0
        THEN [num |-> TruncDiv(dataSize, bytesPerSample), den |-> sampleRate]
        ELSE [num |-> recordingTime, den |-> 1]

\* lines 1523-1540: flags, then Stop and Close of the tracked stream
stopRecordingBegin(w) ==
    LET w1 == [w EXCEPT !.m.recording = FALSE, !.m.state = "Viewing"]
        ad == w1.m.audioDevice
    IN  IF ad # NoDev /\ w1.devs[ad].stream # "nil"
        THEN [w1 EXCEPT !.devs[ad] = StopAndClose(@)]
        ELSE w1

\* lines 1543-1559: Stat of the recording file, and the duration
stopRecordingStat(w) ==
    LET ad == w.m.audioDevice
    IN  IF ad # NoDev /\ w.devs[ad].recordingFile # NoFile
        THEN LET size == FileSize(w.files[w.devs[ad].recordingFile])
             IN  [filename |-> w.devs[ad].recordingFile,
                  fileSize |-> size,
                  duration |-> Duration(size, w.m.channelCount, w.m.bitDepth,
                                        w.m.sampleRate, w.m.recordingTime)]
        ELSE NoStat

\* lines 1561-1570: Seek(40), write uint32(dataSize), Close
PatchAndClose(w, ad, st) ==
    LET name == w.devs[ad].recordingFile
    IN  [w EXCEPT !.files[name].hdr40 = Uint32(st.fileSize - HeaderSize),
                  !.files[name].hdrLen = HeaderSize,
                  !.devs[ad].fopen = FALSE]

\* a memo's name: the file's name without its extension, or a text
AutoName(filename) == [file |-> filename, text |-> ""]

TextName(text) == [file |-> NoFile, text |-> text]

\* lines 1581-1592: the MemoRecord of a finalized recording
NewMemo(st, t) ==
    [id |-> t, filename |-> st.filename, name |-> AutoName(st.filename),
     duration |-> st.duration, created |-> t, size |-> st.fileSize, tags |-> <<>>]

\* stopRecordingFinish that puts the new memo at the end of the collection
stopRecordingFinishAppends(w, st, t) ==
    LET ad == w.m.audioDevice
        w1 == IF ad # NoDev /\ w.devs[ad].recordingFile # NoFile
              THEN PatchAndClose(w, ad, st) ELSE w
        w2 == [w1 EXCEPT !.m.audioDevice = NoDev]
        w3 == Terminate(w2)
        w4 == IF st.filename # NoFile
              THEN saveMemos([w3 EXCEPT !.m.memos = Append(@, NewMemo(st, t))])
              ELSE w3
    IN  [w4 EXCEPT !.m.recordingTime = 0]

\* lines 1549-1607, given what Stat returned
stopRecordingFinish(w, st, t) ==
    LET ad == w.m.audioDevice
        w1 == IF ad # NoDev /\ w.devs[ad].recordingFile # NoFile
              THEN PatchAndClose(w, ad, st) ELSE w
        w2 == [w1 EXCEPT !.m.audioDevice = NoDev]
        w3 == Terminate(w2)
        w4 == IF st.filename # NoFile
              THEN saveMemos([w3 EXCEPT !.m.memos = <<NewMemo(st, t)>> \o @])
              ELSE w3
    IN  [w4 EXCEPT !.m.recordingTime = 0]

\* stopRecording run in one piece (from inside startRecording no stream of the
\* new session is running yet, so no callback of it can fall in between)
stopRecording(w, t) ==
    LET w1 == stopRecordingBegin(w)
    IN  stopRecordingFinish(w1, stopRecordingStat(w1), t)

\* ---- startRecording
RecFailures == {"none", "init", "nodev", "create", "header", "open", "start"}

\* lines 1311-1422; fail names the step that returns an error, t is the clock
startRecording(w, fail, t) ==
    LET w0 == [w EXCEPT !.m.recording = TRUE, !.m.state = "Recording",
                        !.m.recordingTime = 0, !.m.lastUpdate = t]
        w1 == Initialize(w0)
        w2 == [w1 EXCEPT !.files[t] = Created, !.orphans = @ + 1]
        w3 == [w2 EXCEPT !.files[t] = writeWAVHeader(@, w.m.sampleRate, w.m.channelCount,
                                                     w.m.bitDepth * 8, 0)]
        ad == NewSlot(w3.devs)
        w4 == [w3 EXCEPT !.devs[ad] = NewRecordingDevice(t),
                         !.m.audioDevice = ad,
                         !.orphans = @ - 1]
        w5 == [w4 EXCEPT !.devs[ad].stream = "stopped"]
    IN  CASE fail = "init"   -> stopRecording(w0, t)
          [] fail = "nodev"  -> stopRecording(w1, t)
          [] fail = "create" -> stopRecording(w1, t)
          [] fail = "header" -> stopRecording(w2, t)
          [] fail = "open"   -> stopRecording(w4, t)
          [] fail = "start"  -> stopRecording(w5, t)
          [] OTHER           -> [w5 EXCEPT !.devs[ad].stream = "running"]

\* ---- the audio callbacks
\* ScaleSample with the division rounding down instead of toward zero
ScaleSampleFloor(s, volume) ==
    LET x == s * volume
    IN  IF x > Int16Max * VolDen THEN Int16Max
        ELSE IF x < Int16Min * VolDen THEN Int16Min
        ELSE x \div VolDen

\* ScaleSample with the conversion to 16 bits wrapping instead of clamping
ScaleSampleWrap(s, volume) ==
    LET q == IF s * volume >= 0 THEN (s * volume) \div VolDen
             ELSE -((-(s * volume)) \div VolDen)
    IN  ((q - Int16Min) % (Int16Max - Int16Min + 1)) + Int16Min

\* line 1503-1509: one sample scaled by the volume, clamped, then truncated
ScaleSample(s, volume) ==
    LET x == s * volume
    IN  IF x > Int16Max * VolDen THEN Int16Max
        ELSE IF x < Int16Min * VolDen THEN Int16Min
        ELSE TruncDiv(x, VolDen)

\* lines 1500-1515: the loop over the output slots
RECURSIVE FillLoop(_, _, _, _, _)
FillLoop(data, pos, volume, k, acc) ==
    IF Len(acc) = k THEN [out |-> acc, pos |-> pos]
    ELSE IF pos < Len(data)
         THEN FillLoop(data, pos + 1, volume, k, Append(acc, ScaleSample(data[pos + 1], volume)))
         ELSE FillLoop(data, pos, volume, k, Append(acc, 0))

\* lines 1487-1519 on the AudioDevice the callback is bound to
processAudioOutput(d, k) ==
    IF ~d.hasData THEN [out |-> [i \in 1..k |-> 0], pos |-> d.playbackPos]
    ELSE FillLoop(d.playbackData, d.playbackPos, d.cbVolume, k, <<>>)

\* processAudioInput that stops its stream once the block is written
processAudioInputStops(w, i, in) ==
    LET d == w.devs[i]
    IN  IF d.recordingFile # NoFile /\ d.fopen
        THEN [w EXCEPT !.files[d.recordingFile].data = WriteAt(@, d.off, in),
                       !.devs[i] = StopOnly([@ EXCEPT !.off = @ + Len(in)])]
        ELSE w

\* lines 1444-1449: the block is written through the device's file handle; a
\* write through a closed handle fails and is only logged
processAudioInput(w, i, in) ==
    LET d == w.devs[i]
    IN  IF d.recordingFile # NoFile /\ d.fopen
        THEN [w EXCEPT !.files[d.recordingFile].data = WriteAt(@, d.off, in),
                       !.devs[i].off = @ + Len(in)]
        ELSE w

\* ---- playback
PlayFailures == {"none", "read", "init", "nodev", "open", "start"}

\* lines 1610-1692
startPlayback(w, fail) ==
    IF Len(w.m.memos) = 0 THEN w
    ELSE
    LET memo == w.m.memos[w.m.selectedIdx + 1]
        rd == readWAVData(w.files[memo.filename])
        w1 == Initialize(w)
        ad == NewSlot(w1.devs)
        w2 == [w1 EXCEPT !.devs[ad] = NewPlaybackDevice(rd.samples),
                         !.m.audioDevice = ad]
        w3 == [w2 EXCEPT !.devs[ad].stream = "stopped"]
    IN  CASE fail = "read" \/ rd.err -> w
          [] fail = "init"  -> w
          [] fail = "nodev" -> Terminate(w1)
          [] fail = "open"  -> Terminate(w2)
          [] fail = "start" -> Terminate(w3)
          [] OTHER -> [w3 EXCEPT !.devs[ad].stream = "running",
                                 !.devs[ad].cbVolume = w.m.volume,
                                 !.m.playing = TRUE,
                                 !.m.state = "Playing",
                                 !.m.playbackPos = NoDuration,
                                 !.m.lastUpdate = w.now]

\* pausePlayback that also rewinds the cursor of the session
pausePlaybackRewinds(w) ==
    LET ad == w.m.audioDevice
        w1 == IF ad # NoDev /\ w.devs[ad].stream # "nil"
              THEN [w EXCEPT !.devs[ad] = [StopOnly(@) EXCEPT !.playbackPos = 0]] ELSE w
    IN  [w1 EXCEPT !.m.playing = FALSE, !.m.state = "Viewing"]

\* lines 1695-1704
pausePlayback(w) ==
    LET ad == w.m.audioDevice
        w1 == IF ad # NoDev /\ w.devs[ad].stream # "nil"
              THEN [w EXCEPT !.devs[ad] = StopOnly(@)] ELSE w
    IN  [w1 EXCEPT !.m.playing = FALSE, !.m.state = "Viewing"]

\* stopPlayback without its m.playing = false
stopPlaybackKeepsPlaying(w) ==
    LET ad == w.m.audioDevice
        w1 == IF ad # NoDev
              THEN [w EXCEPT !.devs[ad] = StopAndClose(@), !.m.audioDevice = NoDev]
              ELSE w
        w2 == Terminate(w1)
    IN  [w2 EXCEPT !.m.state = "Viewing", !.m.playbackPos = NoDuration]

\* lines 1707-1731
stopPlayback(w) ==
    LET ad == w.m.audioDevice
        w1 == IF ad # NoDev
              THEN [w EXCEPT !.devs[ad] = StopAndClose(@), !.m.audioDevice = NoDev]
              ELSE w
        w2 == Terminate(w1)
    IN  [w2 EXCEPT !.m.playing = FALSE, !.m.state = "Viewing", !.m.playbackPos = NoDuration]

\* lines 902-916: the tick sees the end of the data on the tracked device
EndOfData(w) ==
    /\ w.m.playing
    /\ w.m.audioDevice # NoDev
    /\ w.devs[w.m.audioDevice].hasData
    /\ w.devs[w.m.audioDevice].playbackPos >= Len(w.devs[w.m.audioDevice].playbackData)

\* line 906: the rate the tick divides the cursor by
samplesPerSecond == 44100

\* a time in seconds as the fraction num / den, with one form for zero
Seconds(num, den) == IF num = 0 THEN NoDuration ELSE [num |-> num, den |-> den]

\* lines 896-924, the playing part
tickPlaying(w) ==
    IF w.m.playing /\ w.m.audioDevice # NoDev /\ w.devs[w.m.audioDevice].hasData
    THEN LET w1 == [w EXCEPT !.m.playbackPos =
                                Seconds(w.devs[w.m.audioDevice].playbackPos, samplesPerSecond)]
         IN  IF EndOfData(w1) THEN stopPlayback(w1) ELSE w1
    ELSE w

\* lines 896-924: the recording time grows by the time since the last update
tick(w) ==
    LET w1 == IF w.m.recording
              THEN [w EXCEPT !.m.recordingTime = @ + (w.now - w.m.lastUpdate)]
              ELSE w
        w2 == tickPlaying(w1)
        w3 == IF w2.m.notificationAt # NoTime /\ w2.now - w2.m.notificationAt > 3
              THEN [w2 EXCEPT !.m.notification = "", !.m.notificationAt = NoTime]
              ELSE w2
    IN  [w3 EXCEPT !.m.lastUpdate = w.now]

\* ---- notifications
\* showNotification, lines 151-155
showNotification(w, message) ==
    [w EXCEPT !.m.notification = message, !.m.notificationAt = w.now]

\* exportMemo, lines 1824-1856: the copy to the Downloads directory succeeds
\* or fails, and either way the user is told
exportMemo(w, copied) ==
    IF Len(w.m.memos) = 0 THEN w
    ELSE showNotification(w, IF copied THEN "Exported to Downloads" ELSE "Export failed")

\* ---- configuration
\* loadConfig with the stored volume taken as it is
loadConfigVolumeUnchecked(stored) == stored

\* loadConfig, lines 685-687, in tenths: a stored volume outside (0, 1] is
\* replaced by 1.0
loadConfigVolume(stored) == IF stored <= 0 \/ stored > VolDen THEN VolDen ELSE stored

\* ---- settings
\* findIntIndex, then the cyclic step of adjustSetting: the neighbour of cur in
\* list, or cur itself when the list does not hold it
Cycle(list, cur, delta) ==
    IF \E i \in DOMAIN list : list[i] = cur
    THEN LET idx == CHOOSE i \in DOMAIN list : list[i] = cur
         IN  list[((idx - 1 + delta + Len(list)) % Len(list)) + 1]
    ELSE cur

\* setPlayerVolume, lines 1989-1996, in tenths
setPlayerVolume(w, volume) ==
    [w EXCEPT !.m.volume = IF volume < 0 THEN 0 ELSE IF volume > VolDen THEN VolDen ELSE volume]

\* the items of the settings screen that the model holds: 2 sample rate,
\* 3 bit depth, 4 channel count, 6 volume
FormatSettings == {2, 3, 4}

VolumeSettings == {6}

\* adjustSetting, lines 1066-1120, on the selected item
adjustSetting(w, item, delta) ==
    CASE item = 2 -> [w EXCEPT !.m.sampleRate = Cycle(<<22050, 44100, 48000, 96000>>, @, delta)]
      [] item = 3 -> [w EXCEPT !.m.bitDepth = Cycle(<<16, 24, 32>>, @, delta)]
      [] item = 4 -> [w EXCEPT !.m.channelCount = Cycle(<<1, 2>>, @, delta)]
      [] item = 6 -> setPlayerVolume(w, Max(0, Min(VolDen, w.m.volume + delta)))
      [] OTHER -> w

\* ---- the memo collection
\* the collection is ordered by creation time, newest first
NewestFirst(memos) ==
    \A i \in 1..(Len(memos) - 1) : memos[i].created >= memos[i + 1].created

\* loadMemos, lines 778-805: the memos of the metadata file whose audio file
\* exists, with the file's size, sorted newest first; sort.Slice may leave
\* memos of the same creation time in either order
loadMemos(metadata, fs) ==
    LET valid == SelectSeq(metadata, LAMBDA x : fs[x.filename].exists)
        sized == [i \in 1..Len(valid) |->
                     [valid[i] EXCEPT !.size = FileSize(fs[valid[i].filename])]]
    IN  {t \in {[i \in 1..Len(sized) |-> sized[p[i]]] : p \in Permutations(1..Len(sized))} :
            NewestFirst(t)}

\* the index of the first memo with the id, 0 when there is none
FirstWithID(memos, id) ==
    IF \E i \in 1..Len(memos) : memos[i].id = id
    THEN CHOOSE i \in 1..Len(memos) :
            /\ memos[i].id = id
            /\ \A j \in 1..(i - 1) : memos[j].id # id
    ELSE 0

\* lines 1044-1062 of createTestToneFile: int16(0.3 * 32767 * sin(2 pi 440 i / 44100))
ToneTable == <<0, 615, 1229, 1837, 2439>>

ToneData == [i \in 1..ToneSamples |-> ToneTable[((i - 1) % Len(ToneTable)) + 1]]

\* the file createTestToneFile writes (the tone cut to ToneSamples samples)
ToneFile ==
    [writeWAVHeader(Created, 44100, 1, 16, 2 * ToneSamples) EXCEPT !.data = ToneData]

\* createTestToneFile, lines 1031-1063
createTestToneFile(w) == [w EXCEPT !.files[TestToneFile] = ToneFile]

\* lines 993-1002 of loadTestFile: the memo of the test file
TestMemo(t) ==
    [id |-> TestFileID, filename |-> TestToneFile, name |-> TextName("Test Tone (440Hz)"),
     duration |-> [num |-> 5, den |-> 1], created |-> t, size |-> 441000,
     tags |-> <<"test">>]

\* loadTestFile, lines 982-1028
loadTestFile(w) ==
    LET w1 == IF w.files[TestToneFile].exists THEN w ELSE createTestToneFile(w)
        i == FirstWithID(w.m.memos, TestFileID)
        memos == IF i # 0 THEN [w.m.memos EXCEPT ![i] = TestMemo(w.now)]
                 ELSE <<TestMemo(w.now)>> \o w.m.memos
    IN  saveMemos([w1 EXCEPT !.m.memos = memos, !.m.selectedIdx = 0])

\* renameMemo, lines 1734-1754
renameMemo(w, newName) ==
    IF Len(w.m.memos) > 0 /\ newName # ""
    THEN LET sel == w.m.selectedIdx + 1
             i == FirstWithID(w.m.memos, w.m.memos[sel].id)
         IN  saveMemos([w EXCEPT !.m.memos[sel].name = TextName(newName),
                                 !.m.memos[i].name = TextName(newName)])
    ELSE w

\* addTag, lines 1757-1785
addTag(w, tag) ==
    IF Len(w.m.memos) > 0 /\ tag # ""
    THEN LET sel == w.m.selectedIdx + 1
             tags == w.m.memos[sel].tags
             i == FirstWithID(w.m.memos, w.m.memos[sel].id)
         IN  IF \E k \in 1..Len(tags) : tags[k] = tag
             THEN w
             ELSE saveMemos([w EXCEPT !.m.memos[sel].tags = Append(tags, tag),
                                      !.m.memos[i].tags = Append(tags, tag)])
    ELSE w

\* os.Remove: the name goes; a file some handle still has open keeps its content
Remove(w, name) ==
    IF \E i \in Slots : w.devs[i].recordingFile = name /\ w.devs[i].fopen
    THEN [w EXCEPT !.files[name].exists = FALSE]
    ELSE [w EXCEPT !.files[name] = Absent]

\* deleteMemo without the adjustment of the selection
deleteMemoKeepsSelection(w) ==
    IF Len(w.m.memos) = 0
    THEN w
    ELSE LET memo == w.m.memos[w.m.selectedIdx + 1]
             w1 == Remove(w, memo.filename)
             i == FirstWithID(w.m.memos, memo.id)
             memos == SubSeq(w.m.memos, 1, i - 1) \o SubSeq(w.m.memos, i + 1, Len(w.m.memos))
         IN  saveMemos([w1 EXCEPT !.m.memos = memos])

\* deleteMemo, lines 1788-1821
deleteMemo(w) ==
    IF Len(w.m.memos) = 0
    THEN w
    ELSE LET memo == w.m.memos[w.m.selectedIdx + 1]
             w1 == Remove(w, memo.filename)
             i == FirstWithID(w.m.memos, memo.id)
             memos == SubSeq(w.m.memos, 1, i - 1) \o SubSeq(w.m.memos, i + 1, Len(w.m.memos))
         IN  saveMemos([w1 EXCEPT !.m.memos = memos,
                                  !.m.selectedIdx = Max(0, Min(@, Len(memos) - 1))])

\* ---- initial state: initialModel with one memo on disk (loadMemos)
InitData == <<100, -200>>

InitFile ==
    [writeWAVHeader(Created, DefaultSampleRate, 1, 16, 2 * Len(InitData))
        EXCEPT !.data = InitData]

\* a memo of the metadata file, as loadMemos returns it: Size is the file's
InitMemo ==
    [id |-> 0, filename |-> 0, name |-> AutoName(0),
     duration |-> [num |-> Len(InitData), den |-> DefaultSampleRate],
     created |-> 0, size |-> FileSize(InitFile), tags |-> <<>>]

\* initialModel: the Model around the loaded memos and the loaded volume
InitModel(memos, v) ==
    [state |-> "Viewing", recording |-> FALSE, playing |-> FALSE,
     audioDevice |-> NoDev, memos |-> memos, selectedIdx |-> 0,
     volume |-> v, sampleRate |-> DefaultSampleRate,
     channelCount |-> DefaultChannelCount, bitDepth |-> DefaultBitDepth,
     playbackPos |-> NoDuration, recordingTime |-> 0, lastUpdate |-> 1,
     notification |-> "", notificationAt |-> NoTime]

InitVolumes == {10}

FileNames == {TestToneFile} \cup 0..MaxClock

\* the blocks the input stream may deliver
Blocks == {[i \in 1..n |-> 1000] : n \in 1..MaxData}

NoReq == [dev |-> NoDev, k |-> 0, c |-> 0]

\* no header round trip is under way
NoCodec ==
    [phase |-> "none", sampleRate |-> 0, channels |-> 0, bits |-> 0, data |-> <<>>,
     tail |-> NoByte, bytes |-> <<>>, file |-> Absent, res |-> ReadError]

Init ==
    /\ m \in {InitModel(<<InitMemo>>, v) : v \in InitVolumes}
    /\ devs = [i \in 1..MaxSess |-> Free]
    /\ files = [n \in FileNames |-> IF n = 0 THEN InitFile ELSE Absent]
    /\ meta = <<InitMemo>>
    /\ pa = 0
    /\ now = 1
    /\ pc = "idle"
    /\ sr = NoStat
    /\ out = <<>>
    /\ req = NoReq
    /\ curRec = NoDev
    /\ curPlay = NoDev
    /\ playMemo = NoFile
    /\ paused = FALSE
    /\ tickStops = 0
    /\ codec = NoCodec

\* An AudioDevice nothing refers to any more (not the Model's pointer, no open
\* stream whose callback is bound to it, no session of the user) is garbage:
\* its slot is free again.
Collect(w, cr, cp) ==
    [w EXCEPT !.devs = [i \in Slots |->
        IF i = w.m.audioDevice \/ StreamOpen(w.devs[i]) \/ i = cr \/ i = cp
        THEN w.devs[i] ELSE Free]]

\* the state a handler leaves, with the sessions the user has in progress
Commit(w, cr, cp) ==
    LET w1 == Collect(w, cr, cp)
    IN  /\ m' = w1.m
        /\ devs' = w1.devs
        /\ files' = w1.files
        /\ meta' = w1.meta
        /\ pa' = w1.pa
        /\ curRec' = cr
        /\ curPlay' = cp
        /\ out' = <<>>
        /\ req' = NoReq

\* ---- the control thread: one message at a time
\* Update, lines 886-894: which handler a key press goes to
MainKeys == pc = "idle" /\ m.state \notin {"Renaming", "Tagging", "Settings"}

\* handleMainKeys, Record key while not recording (lines 1223-1229)
KeyRecordStart ==
    /\ MainKeys
    /\ ~m.recording
    /\ Len(m.memos) < MaxMemos
    /\ \E fail \in RecFailures :
        /\ fail = "init" => pa = 0
        /\ fail # "init" => pa < MaxInit
        /\ fail \in {"none", "open", "start"} => HasFreeSlot(devs)
        /\ LET w == startRecording(World, fail, now)
           IN  Commit(w, IF fail = "none" THEN w.m.audioDevice ELSE NoDev, curPlay)
    /\ UNCHANGED <<codec, now, pc, sr, playMemo, paused, tickStops>>

\* handleMainKeys, Record key while recording: stopRecording up to the Stat
KeyRecordStop ==
    /\ MainKeys
    /\ m.recording
    /\ Commit(stopRecordingBegin(World), curRec, curPlay)
    /\ pc' = "stat"
    /\ UNCHANGED <<codec, now, sr, playMemo, paused, tickStops>>

\* stopRecording: the Stat of the file
StopRecordingStat ==
    /\ pc = "stat"
    /\ sr' = stopRecordingStat(World)
    /\ pc' = "finish"
    /\ Commit(World, curRec, curPlay)
    /\ UNCHANGED <<codec, now, playMemo, paused, tickStops>>

\* stopRecording: patch, close, MemoRecord
FinishRecording(w) ==
    /\ pc = "finish"
    /\ Commit(stopRecordingFinish(w, sr, now), NoDev, curPlay)
    /\ pc' = "idle"
    /\ sr' = NoStat
    /\ UNCHANGED <<codec, now, playMemo, paused, tickStops>>

StopRecordingFinish == FinishRecording(World)

\* the same with the write of the metadata file failing
StopRecordingFinishSaveFails == FinishRecording(WorldSaveFails)

\* portaudio.OpenStream opens no stream of 0 Hz or of 0 channels
StreamFormatOK(name) ==
    LET rd == readWAVData(files[name])
    IN  rd.err \/ (rd.sampleRate > 0 /\ rd.channels > 0)

\* handleMainKeys, Play key while not playing (lines 1231-1237)
KeyPlayStart ==
    /\ MainKeys
    /\ Len(m.memos) > 0
    /\ ~m.playing
    /\ \E fail \in PlayFailures :
        /\ fail = "init" => pa = 0
        /\ fail \notin {"init", "read"} => pa < MaxInit
        /\ fail \in {"none", "open", "start"} => HasFreeSlot(devs)
        /\ fail \in {"none", "start"} => StreamFormatOK(m.memos[m.selectedIdx + 1].filename)
        /\ LET w == startPlayback(World, fail)
           IN  /\ Commit(w, curRec, IF w.m.playing THEN w.m.audioDevice ELSE curPlay)
               /\ playMemo' = IF w.m.playing
                              THEN m.memos[m.selectedIdx + 1].filename ELSE playMemo
               /\ paused' = IF w.m.playing THEN FALSE ELSE paused
               /\ tickStops' = IF w.m.playing THEN 0 ELSE tickStops
    /\ UNCHANGED <<codec, now, pc, sr>>

\* handleMainKeys, Play key while playing
KeyPlayPause ==
    /\ MainKeys
    /\ Len(m.memos) > 0
    /\ m.playing
    /\ Commit(pausePlayback(World), curRec, curPlay)
    /\ paused' = TRUE
    /\ UNCHANGED <<codec, now, pc, sr, playMemo, tickStops>>

\* handleMainKeys, Stop key (lines 1240-1243)
handleStopKey(w) == IF w.m.playing THEN stopPlayback(w) ELSE w

KeyStop ==
    /\ MainKeys
    /\ Commit(handleStopKey(World), curRec, IF m.playing THEN NoDev ELSE curPlay)
    /\ paused' = IF m.playing THEN FALSE ELSE paused
    /\ UNCHANGED <<codec, now, pc, sr, playMemo, tickStops>>

\* handleMainKeys, Up and Down (lines 1245-1253): the list moves its cursor
KeyUpDown ==
    /\ MainKeys
    /\ Len(m.memos) > 0
    /\ \E i \in {m.selectedIdx - 1, m.selectedIdx + 1} :
        Commit([World EXCEPT !.m.selectedIdx = Max(0, Min(Len(m.memos) - 1, i))],
               curRec, curPlay)
    /\ UNCHANGED <<codec, now, pc, sr, playMemo, paused, tickStops>>

\* handleMainKeys: the Settings, Rename and Tag keys change the state
KeyMode ==
    /\ MainKeys
    /\ \E s \in {"Settings", "Renaming", "Tagging"} :
        /\ s # "Settings" => Len(m.memos) > 0
        /\ Commit([World EXCEPT !.m.state = s], curRec, curPlay)
    /\ UNCHANGED <<codec, now, pc, sr, playMemo, paused, tickStops>>

\* handleTextInput and handleSettingsKeys: Enter or Escape goes back to Viewing
KeyLeaveMode ==
    /\ pc = "idle"
    /\ m.state \in {"Renaming", "Tagging", "Settings"}
    /\ Commit([World EXCEPT !.m.state = "Viewing"], curRec, curPlay)
    /\ UNCHANGED <<codec, now, pc, sr, playMemo, paused, tickStops>>

\* Update, tickMsg (lines 896-924)
TickMsg ==
    /\ pc = "idle"
    /\ Commit(tick(World), curRec, IF EndOfData(World) THEN NoDev ELSE curPlay)
    /\ tickStops' = IF EndOfData(World) THEN tickStops + 1 ELSE tickStops
    /\ paused' = IF EndOfData(World) THEN FALSE ELSE paused
    /\ UNCHANGED <<codec, now, pc, sr, playMemo>>

\* ---- the audio thread
\* a block arrives on a running input stream
AudioInput ==
    /\ \E i \in Slots, in \in Blocks :
        /\ IsInput(devs[i])
        /\ devs[i].stream = "running"
        /\ devs[i].off + Len(in) <= MaxData
        /\ Commit(processAudioInput(World, i, in), curRec, curPlay)
    /\ UNCHANGED <<codec, now, pc, sr, playMemo, paused, tickStops>>

\* a fill request of at most maxk slots arrives on a running output stream
FillRequest(maxk) ==
    /\ \E i \in Slots, k \in 1..maxk :
        /\ IsOutput(devs[i])
        /\ devs[i].stream = "running"
        /\ LET r == processAudioOutput(devs[i], k)
           IN  /\ out' = r.out
               /\ devs' = [devs EXCEPT ![i].playbackPos = r.pos]
               /\ req' = [dev |-> i, k |-> k, c |-> devs[i].playbackPos]
    /\ UNCHANGED <<codec, m, files, meta, pa, now, pc, sr, curRec, curPlay, playMemo, paused, tickStops>>

AudioOutput == FillRequest(MaxSlots)

\* handleSettingsKeys, Left and Right (lines 956-968) on one of the items; Up
\* and Down (lines 946-954) make any item the selected one. The volume is
\* taken at most MaxVolSteps steps below full.
KeyAdjust(items, lowest) ==
    /\ pc = "idle"
    /\ m.state = "Settings"
    /\ \E item \in items, delta \in {-1, 1} :
        /\ adjustSetting(World, item, delta).m.volume >= lowest
        /\ Commit(adjustSetting(World, item, delta), curRec, curPlay)
    /\ UNCHANGED <<codec, now, pc, sr, playMemo, paused, tickStops>>

KeyAdjustVolume == KeyAdjust(VolumeSettings, VolDen - MaxVolSteps)

KeyAdjustFormat == KeyAdjust(FormatSettings, VolDen - MaxVolSteps)

\* the volume taken as far down as it goes
KeyAdjustAnyVolume == KeyAdjust(VolumeSettings, 0)

\* a second of wall-clock time passes
\* handleMainKeys, the TestFile key (lines 1220-1221)
KeyTestFile ==
    /\ MainKeys
    /\ FirstWithID(m.memos, TestFileID) = 0 => Len(m.memos) < MaxMemos
    /\ Commit(loadTestFile(World), curRec, curPlay)
    /\ UNCHANGED <<codec, now, pc, sr, playMemo, paused, tickStops>>

\* handleMainKeys, the Delete key (lines 1269-1272)
Delete(w) ==
    /\ MainKeys
    /\ Len(m.memos) > 0
    /\ Commit(deleteMemo(w), curRec, curPlay)
    /\ UNCHANGED <<codec, now, pc, sr, playMemo, paused, tickStops>>

KeyDelete == Delete(World)

KeyDeleteSaveFails == Delete(WorldSaveFails)

\* handleMainKeys, the Export key (lines 1274-1277)
KeyExport ==
    /\ MainKeys
    /\ Len(m.memos) > 0
    /\ \E copied \in BOOLEAN : Commit(exportMemo(World, copied), curRec, curPlay)
    /\ UNCHANGED <<codec, now, pc, sr, playMemo, paused, tickStops>>

\* the texts typed into the text input
Texts == {"", "a"}

\* handleTextInput, Enter (lines 1185-1193): rename or tag, back to Viewing
EnterText(w) ==
    /\ pc = "idle"
    /\ m.state \in {"Renaming", "Tagging"}
    /\ \E text \in Texts :
        LET w1 == IF m.state = "Renaming" THEN renameMemo(w, text) ELSE addTag(w, text)
        IN  Commit([w1 EXCEPT !.m.state = "Viewing"], curRec, curPlay)
    /\ UNCHANGED <<codec, now, pc, sr, playMemo, paused, tickStops>>

KeyEnterText == EnterText(World)

KeyEnterTextSaveFails == EnterText(WorldSaveFails)

ClockTick ==
    /\ now < MaxClock
    /\ now' = now + 1
    /\ UNCHANGED <<codec, m, devs, files, meta, pa, pc, sr, out, req, curRec, curPlay, playMemo, paused, tickStops>>

Next ==
    \/ KeyRecordStart
    \/ KeyRecordStop
    \/ StopRecordingStat
    \/ StopRecordingFinish
    \/ KeyPlayStart
    \/ KeyPlayPause
    \/ KeyStop
    \/ KeyUpDown
    \/ KeyMode
    \/ KeyLeaveMode
    \/ TickMsg
    \/ AudioInput
    \/ AudioOutput
    \/ ClockTick

Spec == Init /\ [][Next]_vars

\* ---- playback with the volume setting: no capture session
NextVolume ==
    \/ KeyPlayStart
    \/ KeyPlayPause
    \/ KeyStop
    \/ KeyMode
    \/ KeyLeaveMode
    \/ KeyAdjustVolume
    \/ TickMsg
    \/ AudioOutput

SpecVolume == Init /\ [][NextVolume]_vars

\* ---- recording with the format settings: no playback session
NextFormat ==
    \/ KeyRecordStart
    \/ KeyRecordStop
    \/ StopRecordingStat
    \/ StopRecordingFinish
    \/ KeyMode
    \/ KeyLeaveMode
    \/ KeyAdjustFormat
    \/ TickMsg
    \/ AudioInput
    \/ ClockTick

SpecFormat == Init /\ [][NextFormat]_vars

\* ---- the memo collection: load, capture, test file, rename, tag, delete;
\* no playback session and no block delivered
\* the memo a former run left in the metadata file for the test file
StoredTestMemo == TestMemo(-1)

StoredMetadata ==
    {<<>>, <<InitMemo>>, <<InitMemo, StoredTestMemo>>, <<StoredTestMemo, InitMemo>>}

\* initialModel over what a former run left on disk
InitMemos ==
    /\ meta \in StoredMetadata
    /\ \E tone \in BOOLEAN :
        files = [n \in FileNames |->
                    CASE n = 0 -> InitFile
                      [] n = TestToneFile /\ tone -> ToneFile
                      [] OTHER -> Absent]
    /\ m \in {InitModel(memos, v) : memos \in loadMemos(meta, files), v \in InitVolumes}
    /\ devs = [i \in 1..MaxSess |-> Free]
    /\ pa = 0
    /\ now = 1
    /\ pc = "idle"
    /\ sr = NoStat
    /\ out = <<>>
    /\ req = NoReq
    /\ curRec = NoDev
    /\ curPlay = NoDev
    /\ playMemo = NoFile
    /\ paused = FALSE
    /\ tickStops = 0
    /\ codec = NoCodec

NextMemos ==
    \/ KeyRecordStart
    \/ KeyRecordStop
    \/ StopRecordingStat
    \/ StopRecordingFinish
    \/ KeyTestFile
    \/ KeyDelete
    \/ KeyUpDown
    \/ KeyMode
    \/ KeyLeaveMode
    \/ KeyEnterText
    \/ ClockTick

SpecMemos == InitMemos /\ [][NextMemos]_vars

\* ---- the header round trip on its own: a format and a payload, the file
\* written, the file read back
CodecRates == {8000, 22050, 44100, 48000, 96000}

\* channel counts, with 65535 the largest the header's field holds
CodecChannels == {1, 2, 65535, 65536}

CodecBits == {16, 24}

CodecSamples == {Int16Min, -1, 0, 1, Int16Max}

\* the odd byte a payload may end with
CodecTails == {NoByte, 7}

CodecPayloads ==
    UNION {[1..n -> CodecSamples] : n \in 0..MaxCodecLen}

CodecInit ==
    /\ m \in {InitModel(<<InitMemo>>, v) : v \in InitVolumes}
    /\ devs = [i \in 1..MaxSess |-> Free]
    /\ files = [n \in FileNames |-> IF n = 0 THEN InitFile ELSE Absent]
    /\ meta = <<InitMemo>>
    /\ pa = 0
    /\ now = 1
    /\ pc = "idle"
    /\ sr = NoStat
    /\ out = <<>>
    /\ req = NoReq
    /\ curRec = NoDev
    /\ curPlay = NoDev
    /\ playMemo = NoFile
    /\ paused = FALSE
    /\ tickStops = 0
    /\ codec \in {[NoCodec EXCEPT !.phase = "in", !.sampleRate = r, !.channels = c,
                                   !.bits = b, !.data = d, !.tail = t] :
                    r \in CodecRates, c \in CodecChannels, b \in CodecBits,
                    d \in CodecPayloads, t \in CodecTails}

\* the file is created, writeWAVHeader writes the header, the payload follows
\* as binary.Write lays it out; a file's data are its payload bytes in pairs
CodecWrite ==
    /\ codec.phase = "in"
    /\ LET bytes == binaryWrite(codec.data)
                        \o (IF codec.tail = NoByte THEN <<>> ELSE <<codec.tail>>)
       IN  codec' = [codec EXCEPT
                        !.phase = "written",
                        !.bytes = bytes,
                        !.file = [writeWAVHeader(Created, codec.sampleRate, codec.channels,
                                                 codec.bits, Len(bytes))
                                     EXCEPT !.data = bytesToSamples(bytes),
                                            !.tail = IF Len(bytes) % 2 = 1
                                                     THEN bytes[Len(bytes)] ELSE NoByte]]
    /\ UNCHANGED <<m, devs, files, meta, pa, now, pc, sr, out, req, curRec, curPlay,
                   playMemo, paused, tickStops>>

\* readWAVData reads the file back
CodecRead ==
    /\ codec.phase = "written"
    /\ codec' = [codec EXCEPT !.phase = "read", !.res = readWAVData(codec.file)]
    /\ UNCHANGED <<m, devs, files, meta, pa, now, pc, sr, out, req, curRec, curPlay,
                   playMemo, paused, tickStops>>

CodecNext ==
    \/ CodecWrite
    \/ CodecRead

SpecCodec == CodecInit /\ [][CodecNext]_vars

\* ---- the memo operations with the writes of the metadata file failing or
\* not: capture stop, rename, tag, delete
NextSave ==
    \/ KeyRecordStart
    \/ KeyRecordStop
    \/ StopRecordingStat
    \/ StopRecordingFinish
    \/ StopRecordingFinishSaveFails
    \/ KeyDelete
    \/ KeyDeleteSaveFails
    \/ KeyUpDown
    \/ KeyMode
    \/ KeyLeaveMode
    \/ KeyEnterText
    \/ KeyEnterTextSaveFails

SpecSave == InitMemos /\ [][NextSave]_vars

\* ---- what the user is told: session starts that fail or not, and exports
NextNotify ==
    \/ KeyRecordStart
    \/ KeyRecordStop
    \/ StopRecordingStat
    \/ StopRecordingFinish
    \/ KeyPlayStart
    \/ KeyStop
    \/ KeyExport
    \/ TickMsg
    \/ ClockTick

SpecNotify == Init /\ [][NextNotify]_vars

\* ---- the volume from the configuration file on: loadConfig, the volume
\* setting over its whole range, playback sessions started at that volume
\* the volumes a configuration file may hold, in tenths
StoredVolumes == {-5, 0, 1, 3, 10, 11, 25}

InitConfig ==
    /\ m \in {InitModel(<<InitMemo>>, loadConfigVolume(v)) : v \in StoredVolumes}
    /\ devs = [i \in 1..MaxSess |-> Free]
    /\ files = [n \in FileNames |-> IF n = 0 THEN InitFile ELSE Absent]
    /\ meta = <<InitMemo>>
    /\ pa = 0
    /\ now = 1
    /\ pc = "idle"
    /\ sr = NoStat
    /\ out = <<>>
    /\ req = NoReq
    /\ curRec = NoDev
    /\ curPlay = NoDev
    /\ playMemo = NoFile
    /\ paused = FALSE
    /\ tickStops = 0
    /\ codec = NoCodec

NextConfig ==
    \/ KeyMode
    \/ KeyLeaveMode
    \/ KeyAdjustAnyVolume
    \/ KeyPlayStart
    \/ KeyStop
    \/ TickMsg

SpecConfig == InitConfig /\ [][NextConfig]_vars

\* ---- playback of the files found on disk: files of other programs, files
\* cut short, files of another rate; no capture session
DiskFiles ==
    {InitFile,
     [InitFile EXCEPT !.riff = FALSE],
     [InitFile EXCEPT !.wave = FALSE],
     [InitFile EXCEPT !.riff = FALSE, !.wave = FALSE],
     [InitFile EXCEPT !.hdrLen = 2, !.data = <<>>],
     [InitFile EXCEPT !.hdrLen = 8, !.data = <<>>],
     [InitFile EXCEPT !.hdrLen = 12, !.data = <<>>],
     [InitFile EXCEPT !.hdrLen = 30, !.data = <<>>],
     [InitFile EXCEPT !.data = <<>>],
     [InitFile EXCEPT !.data = <<100>>],
     [InitFile EXCEPT !.rate = 22050],
     Created}

\* a second memo of a former run, older than the first, its file as written
OlderMemo == [InitMemo EXCEPT !.id = -1, !.filename = 1, !.name = AutoName(1), !.created = -1]

InitFiles ==
    /\ meta = <<InitMemo, OlderMemo>>
    /\ \E f \in DiskFiles :
        files = [n \in FileNames |->
                    CASE n = 0 -> f
                      [] n = 1 -> InitFile
                      [] OTHER -> Absent]
    /\ m \in {InitModel(memos, v) : memos \in loadMemos(meta, files), v \in InitVolumes}
    /\ devs = [i \in 1..MaxSess |-> Free]
    /\ pa = 0
    /\ now = 1
    /\ pc = "idle"
    /\ sr = NoStat
    /\ out = <<>>
    /\ req = NoReq
    /\ curRec = NoDev
    /\ curPlay = NoDev
    /\ playMemo = NoFile
    /\ paused = FALSE
    /\ tickStops = 0
    /\ codec = NoCodec

NextFiles ==
    \/ KeyPlayStart
    \/ KeyPlayPause
    \/ KeyStop
    \/ KeyUpDown
    \/ TickMsg
    \/ AudioOutput

SpecFiles == InitFiles /\ [][NextFiles]_vars

\* ---- the fill callback on its own: one playing session, the buffer and the
\* volume factor drawn from sets that hold the cases of the fill rule
FillData == {<<100, -200, 300>>, <<32000>>, <<-32768, 32767>>, <<-201, 101>>, <<>>}

FillVolumes == {0, 3, 5, 10, 15}

FillInit ==
    /\ \E S \in FillData, v \in FillVolumes :
        /\ m = [InitModel(<<[InitMemo EXCEPT !.size = HeaderSize + 2 * Len(S),
                                               !.duration.num = Len(S)]>>, v)
                   EXCEPT !.state = "Playing", !.playing = TRUE, !.audioDevice = 1]
        /\ devs = [i \in 1..MaxSess |->
                     IF i = 1
                     THEN [NewPlaybackDevice(S) EXCEPT !.stream = "running", !.cbVolume = v]
                     ELSE Free]
        /\ files = [n \in FileNames |->
                     IF n = 0
                     THEN [writeWAVHeader(Created, DefaultSampleRate, 1, 16, 2 * Len(S))
                              EXCEPT !.data = S]
                     ELSE Absent]
    /\ meta = m.memos
    /\ pa = 1
    /\ now = 1
    /\ pc = "idle"
    /\ sr = NoStat
    /\ out = <<>>
    /\ req = NoReq
    /\ curRec = NoDev
    /\ curPlay = 1
    /\ playMemo = 0
    /\ paused = FALSE
    /\ tickStops = 0
    /\ codec = NoCodec

AudioOutputFill == FillRequest(MaxFillSlots)

FillNext == AudioOutputFill

SpecFill == FillInit /\ [][FillNext]_vars

\* ---- sanity of the model (not claims)
TypeOK ==
    /\ m.state \in {"Viewing", "Recording", "Playing", "Renaming", "Tagging", "Settings"}
    /\ m.audioDevice \in {NoDev} \cup Slots
    /\ m.audioDevice # NoDev => devs[m.audioDevice] # Free
    /\ Len(m.memos) <= MaxMemos
    /\ m.selectedIdx \in 0..Max(0, Len(m.memos) - 1)
    /\ \A n \in FileNames : files[n].hdr40 < WrapHigh
    /\ pa \in 0..MaxInit
    /\ tickStops \in 0..1

\* ---- the claims

\* the open (opened and not yet closed) streams of each kind
OpenInputs == {i \in Slots : IsInput(devs[i]) /\ StreamOpen(devs[i])}

OpenOutputs == {i \in Slots : IsOutput(devs[i]) /\ StreamOpen(devs[i])}

\* C1: when stopRecording returns for a capture session that started
\* successfully, the size field at offset 40 of the session's recording file
\* equals the file's size minus 44, whatever blocks were delivered before.
C1_HeaderMatchesFileSize ==
    [][(pc = "finish" /\ pc' = "idle" /\ curRec # NoDev)
        => files'[devs[curRec].recordingFile].hdr40
             = FileSize(files'[devs[curRec].recordingFile]) - HeaderSize]_vars

\* C2: a capture session and a playback session open together do not
\* interfere: the stopRecording that ends the capture session patches the
\* header of its file, closes the file and prepends its MemoRecord, and a
\* stopPlayback leaves every open input stream open.
C2_SessionsDoNotInterfere ==
    [][/\ (pc = "finish" /\ pc' = "idle" /\ curRec # NoDev)
          => LET w == stopRecordingFinish(World, sr, now)
                 name == devs[curRec].recordingFile
             IN  /\ ~w.devs[curRec].fopen
                 /\ Len(m'.memos) = Len(m.memos) + 1
                 /\ m'.memos[1].filename = name
                 /\ files'[name].hdrLen = HeaderSize
       /\ (pc = "idle" /\ m.playing /\ ~m'.playing /\ ~paused')
          => \A i \in OpenInputs : StreamOpen(devs'[i])]_vars

\* C3: at any time at most one input stream and at most one output stream
\* is open.
C3_OneStreamOfEachKind ==
    /\ Cardinality(OpenInputs) <= 1
    /\ Cardinality(OpenOutputs) <= 1

\* C4: the play command on the memo of a paused session resumes that
\* session: the Model plays the paused AudioDevice again, from the cursor and
\* with the buffer it had when it was paused.
C4_PlayResumesPausedSession ==
    [][(/\ pc = "idle" /\ paused /\ curPlay # NoDev
        /\ ~m.playing /\ m'.playing
        /\ m.memos[m.selectedIdx + 1].filename = playMemo)
        => /\ m'.audioDevice = curPlay
           /\ devs'[m'.audioDevice].playbackPos = devs[curPlay].playbackPos
           /\ devs'[m'.audioDevice].playbackData = devs[curPlay].playbackData]_vars

\* C5: pausePlayback stops the output stream of the playback session and
\* clears the playing flag, and leaves the session's buffer and cursor as
\* they were.
C5_PauseStopsAndPreserves ==
    [][(pc = "idle" /\ m.playing /\ ~m'.playing /\ paused' /\ curPlay # NoDev)
        => /\ devs'[curPlay].stream # "running"
           /\ devs'[curPlay].playbackData = devs[curPlay].playbackData
           /\ devs'[curPlay].playbackPos = devs[curPlay].playbackPos]_vars

\* C6: the stop command, given while the playback session the Model tracks
\* is playing or paused, ends the session: its stream is closed, the Model
\* holds its buffer no longer, the displayed position is 0 and the playing
\* flag is false.
C6_StopEndsSession ==
    (MainKeys /\ curPlay # NoDev /\ m.audioDevice = curPlay /\ (m.playing \/ paused))
        => LET w == handleStopKey(World)
           IN  /\ ~StreamOpen(w.devs[curPlay])
               /\ w.m.audioDevice # curPlay
               /\ w.m.playbackPos = NoDuration
               /\ ~w.m.playing

\* C7: the ticks call stopPlayback at most once per playback session, and
\* once a tick has called it the playing flag is false, so that no later tick
\* sees the end of the data again.
C7_TickStopsOnce ==
    /\ tickStops <= 1
    /\ tickStops = 1 => (~m.playing /\ ~EndOfData(World) /\ tickPlaying(World) = World)

C7_Witness == tickStops = 1 /\ ~m.playing /\ curPlay = NoDev

\* C8: when the playback session is playing and its cursor has reached the
\* end of its samples, the next tick stops it: the playing flag is cleared and
\* the session's stream is closed, whatever keys were handled before.
C8_TickStopsAtEnd ==
    (/\ pc = "idle" /\ m.playing /\ curPlay # NoDev
     /\ devs[curPlay].playbackPos >= Len(devs[curPlay].playbackData))
        => LET w == tickPlaying(World)
           IN  ~w.m.playing /\ ~StreamOpen(w.devs[curPlay])

\* the slots a fill request of k slots at cursor c must produce from the
\* samples S at volume v (in tenths)
ExpectedFill(S, c, k, v) ==
    [i \in 1..k |-> IF c + i <= Len(S) THEN TruncDiv(S[c + i] * v, VolDen) ELSE 0]

\* C9: a fill request of k slots on samples S at cursor c and volume v in
\* [0,1] writes trunc(S[c+i] * v) to slot i while c+i < len(S) and 0 after
\* that, and leaves the cursor at min(c+k, len(S)).
C9_FillRule ==
    (req.dev # NoDev /\ devs[req.dev].cbVolume \in 0..VolDen)
        => /\ out = ExpectedFill(devs[req.dev].playbackData, req.c, req.k,
                                 devs[req.dev].cbVolume)
           /\ devs[req.dev].playbackPos
                = Min(req.c + req.k, Len(devs[req.dev].playbackData))

C9_Witness ==
    /\ req = [dev |-> 1, k |-> 5, c |-> 0]
    /\ devs[1].playbackData = <<100, -200, 300>>
    /\ devs[1].cbVolume = 5
    /\ out = <<50, -100, 150, 0, 0>>
    /\ devs[1].playbackPos = 3

\* C10: every value a fill request writes lies in [-32768, 32767] at every
\* volume, above 1 too: a product above 32767 is written as 32767 and one
\* below -32768 as -32768.
C10_FillClamps ==
    req.dev # NoDev
        => \A i \in 1..Len(out) :
            /\ out[i] \in Int16Min..Int16Max
            /\ req.c + i <= Len(devs[req.dev].playbackData)
               => LET x == devs[req.dev].playbackData[req.c + i] * devs[req.dev].cbVolume
                  IN  /\ x > Int16Max * VolDen => out[i] = Int16Max
                      /\ x < Int16Min * VolDen => out[i] = Int16Min

C10_Witness ==
    /\ req.dev = 1
    /\ devs[1].playbackData = <<32000>>
    /\ devs[1].cbVolume = 15
    /\ out[1] = Int16Max

\* C11: the cursor of a playback session changes only in a step of the fill
\* callback of that session, never decreases, stays within 0..len(samples),
\* and the session's buffer stays the same; so a cursor at len(samples) keeps
\* that value.
C11_CursorOnlyAdvancesInFill ==
    [][\A i \in Slots :
        (IsOutput(devs[i]) /\ IsOutput(devs'[i]))
            => /\ devs'[i].playbackData = devs[i].playbackData
               /\ devs'[i].playbackPos >= devs[i].playbackPos
               /\ devs'[i].playbackPos \in 0..Len(devs[i].playbackData)
               /\ devs'[i].playbackPos # devs[i].playbackPos => req'.dev = i]_vars

C11_Witness ==
    /\ curPlay # NoDev
    /\ req.dev = curPlay
    /\ req.c < Len(devs[curPlay].playbackData)
    /\ devs[curPlay].playbackPos = Len(devs[curPlay].playbackData)

\* C13: when stopRecording returns for a capture session that started
\* successfully, the file holds the delivered samples and nothing else, its
\* size is 44 plus two bytes per delivered sample, and the MemoRecord created
\* for it carries that size.
C13_FileHoldsDeliveredBlocks ==
    [][(pc = "finish" /\ pc' = "idle" /\ curRec # NoDev)
        => LET f == files'[devs[curRec].recordingFile]
           IN  /\ Len(f.data) = devs[curRec].off
               /\ \A i \in DOMAIN f.data : \E b \in Blocks : f.data[i] = b[1]
               /\ FileSize(f) = HeaderSize + 2 * devs[curRec].off
               /\ Len(m'.memos) = Len(m.memos) + 1
               /\ m'.memos[1].filename = devs[curRec].recordingFile
               /\ m'.memos[1].size = FileSize(f)]_vars

\* the failures of a start that the state allows: Initialize fails only when
\* PortAudio is not initialized, and a new AudioDevice needs room on the heap
CanFail(fail) ==
    /\ fail = "init" => pa = 0
    /\ fail \in {"open", "start"} => HasFreeSlot(devs)

\* C15: whichever step of startRecording fails, afterwards recording is
\* false, the state is Viewing and no handle of a recording file is open.
C15_FailedRecordStartCleansUp ==
    (MainKeys /\ ~m.recording)
        => \A fail \in RecFailures \ {"none"} :
            CanFail(fail)
                => LET w == startRecording(World, fail, now)
                   IN  /\ ~w.m.recording
                       /\ w.m.state = "Viewing"
                       /\ w.orphans = 0
                       /\ \A i \in Slots : devs[i] = Free => ~w.devs[i].fopen

\* C16: whichever step of startPlayback fails, afterwards playing is false,
\* the state is the one before the call, the Model's AudioDevice is the one
\* before the call, and every AudioDevice that existed is as it was.
C16_FailedPlayStartChangesNothing ==
    (MainKeys /\ ~m.playing /\ Len(m.memos) > 0)
        => \A fail \in PlayFailures \ {"none"} :
            CanFail(fail)
                => LET w == startPlayback(World, fail)
                   IN  /\ ~w.m.playing
                       /\ w.m.state = m.state
                       /\ w.m.audioDevice = m.audioDevice
                       /\ \A i \in Slots : devs[i] # Free => w.devs[i] = devs[i]

\* C17: stopRecording called while no capture session is open (as
\* startRecording calls it when it finds no input device) creates no
\* MemoRecord, writes no metadata and leaves a playing or paused playback
\* session as it was: tracked by the Model, its stream, buffer and cursor the
\* same.
C17_StopWithoutSessionIsNoOp ==
    (MainKeys /\ ~m.recording /\ curRec = NoDev /\ OpenInputs = {})
        => LET w == startRecording(World, "nodev", now)
           IN  /\ w.m.memos = m.memos
               /\ w.meta = meta
               /\ (curPlay # NoDev /\ (m.playing \/ paused))
                    => /\ w.devs[curPlay] = devs[curPlay]
                       /\ w.m.audioDevice = m.audioDevice

\* C18: the stopRecording that finalizes a capture session creates one
\* MemoRecord with the file's name, size and duration, puts it at index 0
\* ahead of the memos there were, in their order, and writes the whole
\* collection to the metadata file; no step adds a memo in any other way.
C18_MemoPrependedAndSaved ==
    [][/\ (pc = "finish" /\ pc' = "idle" /\ sr.filename # NoFile)
          => /\ Len(m'.memos) = Len(m.memos) + 1
             /\ m'.memos[1].filename = sr.filename
             /\ m'.memos[1].size = sr.fileSize
             /\ m'.memos[1].duration = sr.duration
       /\ m'.memos # m.memos
          => /\ Len(m'.memos) = Len(m.memos) + 1
             /\ \A i \in 1..Len(m.memos) : m'.memos[i + 1] = m.memos[i]
             /\ meta' = m'.memos]_vars

C18_Witness ==
    /\ pc = "idle"
    /\ Len(m.memos) = 2
    /\ m.memos[1].size > HeaderSize
    /\ m.memos[1].duration.den = DefaultSampleRate
    /\ m.memos[2] = InitMemo
    /\ meta = m.memos

\* C12: a fill request of a session that is playing applies the volume the
\* Model holds when the request is served, so a volume set from the settings
\* screen during playback is the one later requests apply.
C12_FillAppliesCurrentVolume ==
    (req.dev # NoDev /\ req.dev = curPlay /\ m.playing)
        => out = ExpectedFill(devs[req.dev].playbackData, req.c, req.k, m.volume)

\* C14: the duration of the MemoRecord that stopRecording creates equals
\* dataChunkSize / (channelCount * bytesPerSample) / sampleRateHz, with the
\* channel count, sample width and rate of the recording's header (the sample
\* count a whole number, as the code computes it).
C14_DurationFromRecordingFormat ==
    [][(pc = "finish" /\ pc' = "idle" /\ curRec # NoDev /\ sr.filename # NoFile)
        => LET f == files'[sr.filename]
               d == m'.memos[1].duration
           IN  (f.channels * (f.bits \div 8) > 0 /\ f.rate > 0)
                 => d.num * f.rate
                      = TruncDiv(f.hdr40, f.channels * (f.bits \div 8)) * d.den]_vars

\* C19: after any operation (the initial load, a capture stop, the test file,
\* a rename, a tag, a delete) the memo collection is ordered by creation
\* time, newest first.
C19_MemosNewestFirst == NewestFirst(m.memos)

\* C20: for a sample rate, a channel count and a payload of n bytes that fit
\* their header fields, reading back the file made of writeWAVHeader(format, n)
\* and the n payload bytes succeeds and gives the same sample rate, the same
\* channel count and a payload of n bytes, n \div 2 samples.
C20_HeaderRoundTrip ==
    LET n == 2 * Len(codec.data) + (IF codec.tail = NoByte THEN 0 ELSE 1)
    IN  (codec.phase = "read" /\ codec.channels = Uint16(codec.channels)
                              /\ codec.sampleRate = Uint32(codec.sampleRate)
                              /\ n = Uint32(n))
        => /\ ~codec.res.err
           /\ codec.res.sampleRate = codec.sampleRate
           /\ codec.res.channels = codec.channels
           /\ codec.file.hdr40 = n
           /\ Len(codec.res.samples) = n \div 2

\* a file of 48000 Hz, 2 channels and a payload of 5 bytes has been read back
C20_Witness ==
    /\ codec.phase = "read"
    /\ codec.sampleRate = 48000
    /\ codec.channels = 2
    /\ Len(codec.data) = 2
    /\ codec.tail # NoByte
    /\ Len(codec.res.samples) = 2

\* C21: a sequence of signed 16-bit samples written as little-endian byte
\* pairs and read back by readWAVData comes back as it was, in order and with
\* its signs; an odd byte at the end of the payload is dropped.
C21_SampleRoundTrip ==
    /\ codec.phase \in {"written", "read"}
        => /\ Len(codec.bytes) = 2 * Len(codec.data) + (IF codec.tail = NoByte THEN 0 ELSE 1)
           /\ bytesToSamples(codec.bytes) = codec.data
    /\ codec.phase = "read"
        => /\ ~codec.res.err
           /\ codec.res.samples = codec.data

\* the samples -32768 and 32767 and an odd byte have been written and read back
C21_Witness ==
    /\ codec.phase = "read"
    /\ codec.data = <<Int16Min, Int16Max>>
    /\ codec.bytes = <<0, 128, 255, 127, 7>>
    /\ codec.res.samples = <<Int16Min, Int16Max>>

\* the file's first 4 bytes are not "RIFF" or its bytes 8..11 are not "WAVE"
BadTags(f) == f.exists /\ (~(f.riff /\ f.hdrLen >= 4) \/ ~(f.wave /\ f.hdrLen >= 12))

\* C22: for a file whose first 4 bytes are not "RIFF" or whose bytes 8..11 are
\* not "WAVE", readWAVData returns an error and startPlayback, whatever else
\* could fail in it, starts no playback session: no stream, no device object,
\* the flags and the PortAudio count as they were.
C22_BadTagsRejected ==
    (Len(m.memos) > 0 /\ BadTags(files[m.memos[m.selectedIdx + 1].filename]))
        => /\ readWAVData(files[m.memos[m.selectedIdx + 1].filename]).err
           /\ \A fail \in PlayFailures :
                LET w == startPlayback(World, fail)
                IN  /\ w.m = m
                    /\ w.devs = devs
                    /\ w.pa = pa

\* the other memo has been played to its end, and the selected memo's file
\* has the tag "WAVE" but not the tag "RIFF"
C22_Witness ==
    /\ MainKeys
    /\ tickStops = 1
    /\ ~m.playing
    /\ m.selectedIdx = 0
    /\ m.memos[1].filename = 0
    /\ ~files[0].riff
    /\ files[0].wave
    /\ files[0].hdrLen = HeaderSize

\* the file holds fewer than 44 bytes, or fewer payload bytes than its header
\* declares
Truncated(f) ==
    /\ f.exists
    /\ \/ FileSize(f) < HeaderSize
       \/ PayloadBytes(f) < f.hdr40

\* C23: no playback session plays a file that is truncated relative to its
\* header: starting playback on such a file fails, the file is not decoded
\* into a buffer.
C23_TruncatedRejected ==
    (m.playing /\ playMemo # NoFile) => ~Truncated(files[playMemo])

\* C24: when the write of the metadata file fails during a rename, a tag, a
\* delete or a capture stop, the Model after the operation is the one a
\* successful write leaves (the change is kept), and the metadata file is as
\* it was.
C24_FailedSaveKeepsChange ==
    /\ \A text \in Texts :
        /\ renameMemo(WorldSaveFails, text).m = renameMemo(World, text).m
        /\ renameMemo(WorldSaveFails, text).meta = meta
        /\ addTag(WorldSaveFails, text).m = addTag(World, text).m
        /\ addTag(WorldSaveFails, text).meta = meta
    /\ deleteMemo(WorldSaveFails).m = deleteMemo(World).m
    /\ deleteMemo(WorldSaveFails).files = deleteMemo(World).files
    /\ deleteMemo(WorldSaveFails).meta = meta
    /\ pc = "finish"
        => /\ stopRecordingFinish(WorldSaveFails, sr, now).m
                = stopRecordingFinish(World, sr, now).m
           /\ stopRecordingFinish(WorldSaveFails, sr, now).meta = meta

\* a recording has been finalized and its memo renamed while the writes
\* failed: the collection holds the renamed memo, the metadata file does not
C24_Witness ==
    /\ pc = "idle"
    /\ Len(m.memos) = Len(meta) + 1
    /\ m.memos[1].filename = 1
    /\ m.memos[1].name = TextName("a")
    /\ \A i \in 1..Len(meta) : meta[i].filename # 1

\* C25: a step of an audio callback (a block delivered to processAudioInput, a
\* fill request served by processAudioOutput) stops or closes no stream and
\* changes neither the recording flag, nor the playing flag, nor the UI state;
\* the sessions in progress are the same after it.
C25_CallbacksEndNoSession ==
    [][(AudioInput \/ AudioOutput)
          => /\ \A i \in Slots : devs'[i].stream = devs[i].stream
             /\ m'.recording = m.recording
             /\ m'.playing = m.playing
             /\ m'.state = m.state
             /\ m'.audioDevice = m.audioDevice
             /\ curRec' = curRec
             /\ curPlay' = curPlay]_vars

\* a fill request has just been served on the running stream of the playback
\* session while the capture session, its stream running, has written a block
C25_Witness ==
    /\ req.dev # NoDev
    /\ req.dev = curPlay
    /\ devs[curPlay].stream = "running"
    /\ devs[curPlay].playbackPos > 0
    /\ m.playing
    /\ curRec # NoDev
    /\ devs[curRec].stream = "running"
    /\ devs[curRec].off > 0
    /\ m.recording

\* C26: a timer tick during a playback session that goes on sets the displayed
\* position to cursor / sampleRateHz seconds, sampleRateHz being the sample
\* rate of the file that is played.
C26_PositionUsesFileRate ==
    [][(TickMsg /\ m.playing /\ m'.playing /\ curPlay # NoDev /\ m.audioDevice = curPlay)
          => m'.playbackPos.num * readWAVData(files[playMemo]).sampleRate
                = devs[curPlay].playbackPos * m'.playbackPos.den]_vars

\* C27: after a startRecording or a startPlayback that failed, at whichever
\* step, the Model's notification text is set.
C27_FailedStartNotifies ==
    /\ (MainKeys /\ ~m.recording)
        => \A fail \in RecFailures \ {"none"} :
            CanFail(fail) => startRecording(World, fail, now).m.notification # ""
    /\ (MainKeys /\ ~m.playing /\ Len(m.memos) > 0)
        => \A fail \in PlayFailures \ {"none"} :
            CanFail(fail) => startPlayback(World, fail).m.notification # ""

\* C28: the ids of the memos of the collection are pairwise distinct, after
\* any capture stops, test-file loads, renames, tags and deletes, two capture
\* stops within one second of the clock included.
C28_MemoIdsDistinct ==
    \A i, j \in 1..Len(m.memos) : i # j => m.memos[i].id # m.memos[j].id

\* the tags of a sequence are pairwise different
NoTagTwice(tags) == \A i, j \in 1..Len(tags) : i # j => tags[i] # tags[j]

\* C29: addTag treats the tags of the selected memo as a set: an empty tag or
\* a tag the memo has changes neither the collection nor the metadata file; a
\* new tag is added to the selected memo and changes no other memo; and no
\* memo of the collection has the same tag twice.
C29_TagsAreASet ==
    /\ \A i \in 1..Len(m.memos) : NoTagTwice(m.memos[i].tags)
    /\ Len(m.memos) > 0
        => \A tag \in Texts :
            LET sel == m.selectedIdx + 1
                w == addTag(World, tag)
            IN  IF tag = "" \/ \E k \in 1..Len(m.memos[sel].tags) : m.memos[sel].tags[k] = tag
                THEN w.m.memos = m.memos /\ w.meta = meta
                ELSE /\ Len(w.m.memos) = Len(m.memos)
                     /\ w.m.memos[sel] = [m.memos[sel] EXCEPT !.tags = Append(@, tag)]
                     /\ \A i \in 1..Len(m.memos) : i # sel => w.m.memos[i] = m.memos[i]

\* C30: the configured volume lies in [0, 1] (0..VolDen tenths) after the
\* configuration is loaded and after any adjustments of the volume setting by
\* steps of 0.1, and setPlayerVolume leaves it there whatever it is given.
C30_VolumeInRange ==
    /\ m.volume \in 0..VolDen
    /\ \A delta \in {-1, 1} : adjustSetting(World, 6, delta).m.volume \in 0..VolDen
    /\ \A v \in StoredVolumes : setPlayerVolume(World, v).m.volume \in 0..VolDen

\* the volume has been taken from 0.3 down to 0, on the settings screen
C30_Witness ==
    /\ m.state = "Settings"
    /\ m.volume = 0
    /\ adjustSetting(World, 6, -1).m.volume = 0

\* The capture sessions alone, with room on the heap for one AudioDevice more
\* than the sessions the user can see: a capture, a playback started during
\* it, and the capture that follows the Record key's stop.
InitOrphan ==
    /\ m \in {InitModel(<<InitMemo>>, v) : v \in InitVolumes}
    /\ devs = [i \in 1..(MaxSess + 1) |-> Free]
    /\ files = [n \in FileNames |-> IF n = 0 THEN InitFile ELSE Absent]
    /\ meta = <<InitMemo>>
    /\ pa = 0
    /\ now = 1
    /\ pc = "idle"
    /\ sr = NoStat
    /\ out = <<>>
    /\ req = NoReq
    /\ curRec = NoDev
    /\ curPlay = NoDev
    /\ playMemo = NoFile
    /\ paused = FALSE
    /\ tickStops = 0
    /\ codec = NoCodec

NextOrphan ==
    \/ KeyRecordStart
    \/ KeyRecordStop
    \/ StopRecordingStat
    \/ StopRecordingFinish
    \/ KeyPlayStart
    \/ AudioInput

SpecOrphan == InitOrphan /\ [][NextOrphan]_vars

\* C31: stopRecording stops the input stream before it reads the file's size:
\* once the size is read no block is appended to that file, through the
\* session's handle or any other, no block is written through a handle that
\* has been closed, and the size patched into the header covers every block
\* the file holds.
C31_NoBlockAfterSizeRead ==
    [][/\ AudioInput
          => /\ \A i \in Slots :
                  devs'[i].off # devs[i].off
                      => /\ devs[i].fopen
                         /\ ~(pc \in {"stat", "finish"} /\ m.audioDevice = i)
             /\ sr.filename # NoFile => files'[sr.filename] = files[sr.filename]
       /\ (pc = "finish" /\ pc' = "idle" /\ sr.filename # NoFile)
          => /\ files'[sr.filename].hdr40 = 2 * Len(files'[sr.filename].data)
             /\ FileSize(files'[sr.filename]) = sr.fileSize]_vars

\* C32: a startRecording that fails, at whichever step, adds no memo to the
\* collection and writes no metadata.
C32_FailedStartAddsNoMemo ==
    (MainKeys /\ ~m.recording)
        => \A fail \in RecFailures \ {"none"} :
            CanFail(fail)
                => LET w == startRecording(World, fail, now)
                   IN  /\ w.m.memos = m.memos
                       /\ w.meta = meta

\* ---- the format of the input stream
\* inputDev.DefaultSampleRate of the devices a machine may have: none
\* reported, the rate of the default configuration, and another one
DeviceSampleRates == {0, DefaultSampleRate, 48000}

\* inputDev.MaxInputChannels: none reported, mono, stereo
DeviceMaxInputChannels == {0, 1, 2}

\* lines 1371-1398: the parameters the input stream is opened with
inputParameters(sampleRate, channelCount, devRate, devMax) ==
    [sampleRate |-> IF devRate > 0 THEN devRate ELSE sampleRate,
     channels   |-> IF devMax > 0
                    THEN (IF devMax < channelCount THEN devMax ELSE channelCount)
                    ELSE channelCount]

\* C33: the sample rate and the channel count written into the header of a
\* new recording are those the input stream is opened with, whatever the
\* configured values and whatever rate and channel count the device reports.
C33_HeaderMatchesStream ==
    (MainKeys /\ ~m.recording /\ HasFreeSlot(devs))
        => LET hdr == readWAVData(startRecording(World, "none", now).files[now])
           IN  \A devRate \in DeviceSampleRates, devMax \in DeviceMaxInputChannels :
                   LET p == inputParameters(m.sampleRate, m.channelCount, devRate, devMax)
                   IN  /\ hdr.sampleRate = p.sampleRate
                       /\ hdr.channels = p.channels

\* the same for a device that reports no preferred rate, or the configured
\* one, and at least as many channels as are configured
C33_HeaderMatchesAgreeingDevice ==
    (MainKeys /\ ~m.recording /\ HasFreeSlot(devs))
        => LET hdr == readWAVData(startRecording(World, "none", now).files[now])
           IN  \A devRate \in {0, m.sampleRate}, devMax \in {0} \cup {c \in DeviceMaxInputChannels : c >= m.channelCount} :
                   LET p == inputParameters(m.sampleRate, m.channelCount, devRate, devMax)
                   IN  /\ hdr.sampleRate = p.sampleRate
                       /\ hdr.channels = p.channels

\* C34: when stopRecording has finalized a recording, the RIFF chunk size at
\* offset 4 of its file is 36 plus the data size at offset 40.
C34_RiffSizeMatchesDataSize ==
    [][(pc = "finish" /\ pc' = "idle" /\ sr.filename # NoFile)
          => files'[sr.filename].hdr4 = 36 + files'[sr.filename].hdr40]_vars

\* the same for the recordings that captured no block
C34_RiffSizeOfEmptyRecording ==
    [][(pc = "finish" /\ pc' = "idle" /\ sr.filename # NoFile /\ sr.fileSize = HeaderSize)
          => files'[sr.filename].hdr4 = 36 + files'[sr.filename].hdr40]_vars

\* C35: every startRecording that succeeds creates a file whose name differs
\* from the file name of every memo of the collection, also when two captures
\* fall into the same second.
C35_NewFileNameIsFresh ==
    (MainKeys /\ ~m.recording /\ HasFreeSlot(devs))
        => LET w == startRecording(World, "none", now)
               name == w.devs[w.m.audioDevice].recordingFile
           IN  \A k \in 1..Len(m.memos) : m.memos[k].filename # name

\* the same when no memo of the collection was created in the current second
C35_NewFileNameIsFreshLater ==
    (MainKeys /\ ~m.recording /\ HasFreeSlot(devs)
        /\ \A k \in 1..Len(m.memos) : m.memos[k].created # now)
        => LET w == startRecording(World, "none", now)
               name == w.devs[w.m.audioDevice].recordingFile
           IN  \A k \in 1..Len(m.memos) : m.memos[k].filename # name

\* C36: after any sequence of keys and ticks, recording is true exactly when
\* the state is Recording and playing is true exactly when the state is
\* Playing.
C36_FlagsMatchState ==
    /\ m.recording <=> m.state = "Recording"
    /\ m.playing <=> m.state = "Playing"

\* one direction of it: the state Recording is shown only during a capture
C36_StateRecordingImpliesFlag ==
    m.state = "Recording" => m.recording

\* the state Playing is shown only while the playing flag is set
C36_StatePlayingImpliesFlag ==
    m.state = "Playing" => m.playing

\* ---- leaving the program
\* handleMainKeys, Quit and Escape keys (lines 1210-1212, 1279-1280): the Model
\* is returned as it is with tea.Quit, p.Run returns and main ends; with the
\* process its streams end and its file handles are closed, nothing is
\* written.
KeyQuit ==
    /\ MainKeys
    /\ pc' = "quit"
    /\ devs' = [i \in Slots |-> [StopAndClose(devs[i]) EXCEPT !.fopen = FALSE]]
    /\ UNCHANGED <<codec, m, files, meta, pa, now, sr, out, req, curRec, curPlay,
                   playMemo, paused, tickStops>>

NextQuit ==
    \/ KeyRecordStart
    \/ KeyRecordStop
    \/ StopRecordingStat
    \/ StopRecordingFinish
    \/ AudioInput
    \/ ClockTick
    \/ KeyMode
    \/ KeyLeaveMode
    \/ KeyQuit

SpecQuit == Init /\ [][NextQuit]_vars

\* C37: the quit key pressed while a capture is open finalizes the session:
\* the stream is stopped, the data size of the blocks written is patched into
\* the header, the file is closed, and the session's memo is in the
\* collection and in the metadata file.
C37_QuitFinalizesCapture ==
    [][(pc = "idle" /\ pc' = "quit" /\ m.recording /\ curRec # NoDev)
          => LET name == devs[curRec].recordingFile
             IN  /\ ~StreamOpen(devs'[curRec])
                 /\ ~devs'[curRec].fopen
                 /\ files'[name].hdr40 = PayloadBytes(files'[name])
                 /\ Len(meta') = Len(meta) + 1
                 /\ meta'[1].filename = name
                 /\ m'.memos = meta']_vars

\* the part of it the end of the process brings about: no stream is left
\* open and no file handle
C37_QuitEndsStreams ==
    [][(pc = "idle" /\ pc' = "quit")
          => \A i \in Slots : ~StreamOpen(devs'[i]) /\ ~devs'[i].fopen]_vars

\* C38: when the tick stops the playback at the end of the data while the
\* interface is in Renaming, Tagging or Settings, the state of the interface
\* is left as it is.
C38_AutoStopKeepsModalState ==
    [][(TickMsg /\ EndOfData(World) /\ m.state \in {"Renaming", "Tagging", "Settings"})
          => m'.state = m.state]_vars

\* the ticks that do not stop a playback leave the state of the interface
C38_TickKeepsState ==
    [][(TickMsg /\ ~EndOfData(World)) => m'.state = m.state]_vars

\* ---- portaudio.Initialize and portaudio.Terminate
\* no handler that can run in this state calls Terminate with PortAudio not
\* initialized
NoUnmatchedTerminate ==
    /\ (MainKeys /\ ~m.recording)
        => \A fail \in RecFailures :
            (CanFail(fail) /\ (fail = "none" => HasFreeSlot(devs)))
                => startRecording(World, fail, now).unmatched = 0
    /\ (MainKeys /\ m.recording) => stopRecording(World, now).unmatched = 0
    /\ (MainKeys /\ Len(m.memos) > 0 /\ ~m.playing)
        => \A fail \in PlayFailures :
            (fail \in {"none", "open", "start"} => HasFreeSlot(devs))
                => startPlayback(World, fail).unmatched = 0
    /\ MainKeys => handleStopKey(World).unmatched = 0
    /\ pc = "idle" => tick(World).unmatched = 0

\* not recording, not playing, no paused session
NoSession == pc = "idle" /\ ~m.recording /\ ~m.playing /\ ~paused

\* C39: Terminate is never called without a matching earlier successful
\* Initialize, and whenever no session exists (not recording, not playing, no
\* paused session) as many Terminate calls have been made as successful
\* Initialize calls: PortAudio is not initialized.
C39_InitializeTerminateBalanced ==
    /\ NoUnmatchedTerminate
    /\ NoSession => pa = 0

\* the two halves of it
C39_TerminateIsMatched == NoUnmatchedTerminate

C39_NoSessionNotInitialized == NoSession => pa = 0

====
